---- MODULE Spec2Model ----
(***************************************************************************)
(* A model of the CI failure summarizer action (index.js): the keyword     *)
(* log extraction extractRelevantLogs and the run() pipeline around it.    *)
(*                                                                         *)
(* Strings are sequences of tokens; the token NL is the character '\n' and *)
(* every other token is a piece of text without a line break.  JavaScript  *)
(* indices are kept 0-based: line i of the array lines is lines[i + 1].    *)
(***************************************************************************)
EXTENDS Integers, Sequences, FiniteSets, TLC

\* ------------------------------------------------------------------ bounds
\* The longest corpus (in lines) drawn for the extraction.
MaxCorpusLines == 13
\* The most matching lines placed in a drawn corpus.
MaxMatches == 2
\* max_log_lines is drawn from -MaxNegBudget .. MaxBudget and the default.
MaxBudget == 4
MaxNegBudget == 1
\* The most failed jobs a workflow run lists.
MaxJobs == 2

\* ------------------------------------------------------- program constants
CONTEXT_LINES == 5
DefaultMaxLogLines == 500

NL == "\n"
SEPARATOR == "... (skipped lines) ..."
\* The index entry standing for a pushed separator line.
SkipMark == -1

\* The words of the modelled alphabet that some ERROR_KEYWORDS pattern matches.
ERROR_KEYWORDS == {"error"}

\* ----------------------------------------------------------- JS primitives
Min(a, b) == IF a < b THEN a ELSE b
Max(a, b) == IF a > b THEN a ELSE b

Null == [type |-> "null"]
Str(s) == [type |-> "string", val |-> s]

\* JavaScript truthiness of null and of a string.
Truthy(v) == v.type = "string" /\ v.val # <<>>

RECURSIVE SplitAcc(_, _, _, _)
SplitAcc(s, k, acc, cur) ==
  IF k > Len(s) THEN Append(acc, cur)
  ELSE IF s[k] = NL THEN SplitAcc(s, k + 1, Append(acc, cur), <<>>)
  ELSE SplitAcc(s, k + 1, acc, Append(cur, s[k]))

\* s.split('\n')
Split(s) == SplitAcc(s, 1, <<>>, <<>>)

RECURSIVE Join(_)
\* arr.join('\n')
Join(arr) ==
  IF Len(arr) = 0 THEN <<>>
  ELSE IF Len(arr) = 1 THEN arr[1]
  ELSE arr[1] \o <<NL>> \o Join(Tail(arr))

\* arr.slice(start)
Slice(arr, start) ==
  LET len == Len(arr)
      k == IF start < 0 THEN Max(len + start, 0) ELSE Min(start, len)
  IN SubSeq(arr, k + 1, len)

\* arr.slice(-n): in JavaScript -0 is 0, so slice(-0) is slice(0).
SliceLast(arr, n) == Slice(arr, 0 - n)

\* ------------------------------------------------------ extractRelevantLogs
\* pattern.test(line) for some pattern of ERROR_KEYWORDS.
LineMatches(line) == \E k \in 1..Len(line) : line[k] \in ERROR_KEYWORDS

\* The window of an inner loop that stops one index early (i < instead of
\* i <=).
ContextWindowExclusive(index, n) ==
  Max(0, index - CONTEXT_LINES) .. (Min(n - 1, index + CONTEXT_LINES) - 1)

\* The indices the inner for loop adds around a match at index.
ContextWindow(index, n) ==
  Max(0, index - CONTEXT_LINES) .. Min(n - 1, index + CONTEXT_LINES)

\* matchedLineIndices after lines.forEach.
MatchedLineIndices(ls) ==
  UNION { ContextWindow(i, Len(ls)) : i \in { j \in 0..(Len(ls) - 1) : LineMatches(ls[j + 1]) } }

\* The order a sort without a comparator gives (by decimal string).
LexKey(i) == IF i < 10 THEN i * 100 ELSE (i \div 10) * 100 + (i % 10) + 1

RECURSIVE SortIndicesLexicographic(_)
\* Array.from(matchedLineIndices).sort(): the order without a comparator.
SortIndicesLexicographic(S) ==
  IF S = {} THEN <<>>
  ELSE LET m == CHOOSE x \in S : \A y \in S : LexKey(x) <= LexKey(y)
       IN <<m>> \o SortIndicesLexicographic(S \ {m})

RECURSIVE SortIndices(_)
\* Array.from(matchedLineIndices).sort((a, b) => a - b)
SortIndices(S) ==
  IF S = {} THEN <<>>
  ELSE LET m == CHOOSE x \in S : \A y \in S : x <= y
       IN <<m>> \o SortIndices(S \ {m})

RECURSIVE GroupLoopWide(_, _, _, _)
\* The grouping loop with the test index > lastIndex + 2.
GroupLoopWide(sorted, k, lastIndex, acc) ==
  IF k > Len(sorted) THEN acc
  ELSE LET index == sorted[k]
           acc1 == IF index > lastIndex + 2 /\ Len(acc) > 0
                   THEN Append(acc, SkipMark) ELSE acc
       IN GroupLoopWide(sorted, k + 1, index, Append(acc1, index))

GroupEntriesWide(sorted) == GroupLoopWide(sorted, 1, -2, <<>>)

RECURSIVE GroupLoopEager(_, _, _, _)
\* The grouping loop with the test index > lastIndex.
GroupLoopEager(sorted, k, lastIndex, acc) ==
  IF k > Len(sorted) THEN acc
  ELSE LET index == sorted[k]
           acc1 == IF index > lastIndex /\ Len(acc) > 0
                   THEN Append(acc, SkipMark) ELSE acc
       IN GroupLoopEager(sorted, k + 1, index, Append(acc1, index))

GroupEntriesEager(sorted) == GroupLoopEager(sorted, 1, -2, <<>>)

RECURSIVE GroupLoop(_, _, _, _)
GroupLoop(sorted, k, lastIndex, acc) ==
  IF k > Len(sorted) THEN acc
  ELSE LET index == sorted[k]
           acc1 == IF index > lastIndex + 1 /\ Len(acc) > 0
                   THEN Append(acc, SkipMark) ELSE acc
       IN GroupLoop(sorted, k + 1, index, Append(acc1, index))

\* The for loop over sortedIndices: the index each pushed line comes from,
\* SkipMark for a pushed separator.
GroupEntries(sorted) == GroupLoop(sorted, 1, -2, <<>>)

\* extractedLines: the text pushed for each entry.
EntryText(ls, e) == IF e = SkipMark THEN <<SEPARATOR>> ELSE ls[e + 1]
ExtractedLines(ls, entries) == [k \in 1..Len(entries) |-> EntryText(ls, entries[k])]

\* The truncated return value.
TruncatedResult(extracted, n) == Str(Join(SliceLast(extracted, n)))

\* An empty string returned in place of null.
EmptyStringResult == Str(<<>>)

\* The value returned when matchedLineIndices is empty.
NoMatchResult == Null

\* extractRelevantLogs(logs, maxLines) as one function.
ExtractRelevantLogs(lg, n) ==
  LET ls == Split(lg)
      matched == MatchedLineIndices(ls)
      extracted == ExtractedLines(ls, GroupEntries(SortIndices(matched)))
  IN IF Cardinality(matched) = 0 THEN NoMatchResult
     ELSE IF Len(extracted) > n THEN TruncatedResult(extracted, n)
     ELSE Str(Join(extracted))

\* -------------------------------------------------------------------- state
VARIABLES
  logs,                \* extractRelevantLogs: the argument logs
  maxLines,            \* extractRelevantLogs: the argument maxLines
  lines,               \* logs.split('\n')
  matchedLineIndices,  \* the set filled by lines.forEach
  extractedLines,      \* the array built by the grouping loop
  result,              \* the value returned
  epc,                 \* position in extractRelevantLogs
  inputs,              \* the action's inputs, as core.getInput reads them
  pc,                  \* position in run()
  committerEmail,      \* workflowRun.head_commit?.author?.email ("" when absent)
  failedJobs,          \* the names of the failed jobs, in listing order
  jobIndex,            \* the next job of the fetch loop (0-based)
  allLogs,             \* the corpus
  logsToAnalyze,       \* the text put into the prompt
  usedKeywordExtraction,
  slackUser,           \* the id of the user found, "" for null
  calls,               \* every network call made, in order, with its outcome
  outputs,             \* core.setOutput: name -> value ("" when not set)
  failed,              \* the message of core.setFailed ("" when not called)
  warnings             \* the core.warning calls, in order

evars == <<logs, maxLines, lines, matchedLineIndices, extractedLines, result, epc>>
rvars == <<inputs, pc, committerEmail, failedJobs, jobIndex, allLogs, logsToAnalyze,
           usedKeywordExtraction, slackUser, calls, outputs, failed, warnings>>
vars == <<evars, rvars>>

\* The extraction runs on its own, or inside run() at the call of line 318.
InExtract == pc \in {"extractOnly", "extract"}

\* Lines 45-59: split and scan every line.
ScanLines ==
  /\ InExtract
  /\ epc = "scan"
  /\ lines' = Split(logs)
  /\ matchedLineIndices' = MatchedLineIndices(Split(logs))
  /\ epc' = "scanned"
  /\ UNCHANGED <<logs, maxLines, extractedLines, result>>
  /\ UNCHANGED rvars

\* Lines 61-64: no match, return null.
ReturnNull ==
  /\ InExtract
  /\ epc = "scanned"
  /\ Cardinality(matchedLineIndices) = 0
  /\ result' = NoMatchResult
  /\ epc' = "returned"
  /\ UNCHANGED <<logs, maxLines, lines, matchedLineIndices, extractedLines>>
  /\ UNCHANGED rvars

\* Lines 66-79: sort the indices, push lines and separators.
GroupLines ==
  /\ InExtract
  /\ epc = "scanned"
  /\ Cardinality(matchedLineIndices) # 0
  /\ extractedLines' = ExtractedLines(lines, GroupEntries(SortIndices(matchedLineIndices)))
  /\ epc' = "grouped"
  /\ UNCHANGED <<logs, maxLines, lines, matchedLineIndices, result>>
  /\ UNCHANGED rvars

\* Lines 81-84: too long, keep the last maxLines lines.
ReturnTruncated ==
  /\ InExtract
  /\ epc = "grouped"
  /\ Len(extractedLines) > maxLines
  /\ result' = TruncatedResult(extractedLines, maxLines)
  /\ epc' = "returned"
  /\ UNCHANGED <<logs, maxLines, lines, matchedLineIndices, extractedLines>>
  /\ UNCHANGED rvars

\* Line 86: return everything.
ReturnAll ==
  /\ InExtract
  /\ epc = "grouped"
  /\ ~(Len(extractedLines) > maxLines)
  /\ result' = Str(Join(extractedLines))
  /\ epc' = "returned"
  /\ UNCHANGED <<logs, maxLines, lines, matchedLineIndices, extractedLines>>
  /\ UNCHANGED rvars

\* ------------------------------------------------- the extraction on its own
\* The inputs when only the extraction runs: the documented defaults.
IdleInputs ==
  [github_token |-> "ghs", provider |-> "", anthropic_api_key |-> "", groq_api_key |-> "",
   gemini_api_key |-> "", slack_bot_token |-> "", slack_webhook_url |-> "",
   notification_mode |-> "", fallback_channel |-> "", max_log_lines |-> <<>>]

NoOutputs == [summary |-> "", notified_user |-> ""]

\* The values drawn for max_log_lines.
BudgetValues == ((0 - MaxNegBudget)..MaxBudget) \cup {DefaultMaxLogLines}

\* A corpus of n lines: "error" at the indices of M, a blank last line when
\* blankLast (a log that ends in a line break), "ok" elsewhere.
CorpusLines(n, M, blankLast) ==
  [k \in 1..n |-> IF (k - 1) \in M THEN <<"error">>
                  ELSE IF blankLast /\ k = n THEN <<>>
                  ELSE <<"ok">>]

MatchSets(n) == { M \in SUBSET (0..(n - 1)) : Cardinality(M) <= MaxMatches }

InitExtract ==
  /\ \E n \in 1..MaxCorpusLines : \E M \in MatchSets(n) : \E b \in BOOLEAN :
       logs = Join(CorpusLines(n, M, b))
  /\ maxLines \in BudgetValues
  /\ lines = <<>>
  /\ matchedLineIndices = {}
  /\ extractedLines = <<>>
  /\ result = Null
  /\ epc = "scan"
  /\ inputs = IdleInputs
  /\ pc = "extractOnly"
  /\ committerEmail = ""
  /\ failedJobs = <<>>
  /\ jobIndex = 0
  /\ allLogs = <<>>
  /\ logsToAnalyze = <<>>
  /\ usedKeywordExtraction = FALSE
  /\ slackUser = ""
  /\ calls = <<>>
  /\ outputs = NoOutputs
  /\ failed = <<>>
  /\ warnings = <<>>

NextExtract ==
  \/ ScanLines
  \/ ReturnNull
  \/ GroupLines
  \/ ReturnTruncated
  \/ ReturnAll

SpecExtract == InitExtract /\ [][NextExtract]_vars

\* ---------------------------------------------------------------------- run
\* core.getInput(name) || fallback
OrDefault(v, d) == IF v = "" THEN d ELSE v

Provider == OrDefault(inputs.provider, "anthropic")
NotificationMode == OrDefault(inputs.notification_mode, "channel")

\* parseInt(core.getInput('max_log_lines') || '500', 10); an input is a
\* sequence holding the number written in it, empty when not given.
MaxLogLines ==
  IF inputs.max_log_lines = <<>> THEN DefaultMaxLogLines ELSE inputs.max_log_lines[1]

KnownProviders == {"anthropic", "groq", "gemini"}

\* The switch of lines 226-239.
ApiKey ==
  CASE Provider = "anthropic" -> inputs.anthropic_api_key
    [] Provider = "groq" -> inputs.groq_api_key
    [] Provider = "gemini" -> inputs.gemini_api_key
    [] OTHER -> ""

\* The results of a network call: a success, an error response, a rejected
\* request.
Failures == {"error", "throw"}

Call(api, arg, res, ret) == [api |-> api, arg |-> arg, res |-> res, ret |-> ret]

\* The catch of lines 458-460.
ActionFailed(msg) == <<"Action failed: ", msg>>

\* The message of the error thrown: the one the code builds for an error
\* response, the one of fetch for a rejected request.
ErrorMessage(r, msg) == IF r = "error" THEN msg ELSE "fetch failed"

JobNames == <<"build", "test", "lint", "deploy">>

\* The log texts a job's download returns.
LogTexts == { <<"ok", NL, "ok">>, <<"error", NL>> }

Emails == {"", "dev@example.com"}

\* The section appended for a job (line 306).
JobSection(name, log) == <<NL, NL, "=== Job: ", name, " ===", NL>> \o log

\* The fallback of lines 326-329.
FallbackLogs(all, n) ==
  LET logLines == Split(all)
  IN IF Len(logLines) > n THEN Join(SliceLast(logLines, n)) ELSE all

\* A return or the catch: the run is over.
Finish(msg) ==
  /\ failed' = msg
  /\ pc' = "done"

\* Line 215: github_token is required, getInput throws without it.
FailMissingGithubToken ==
  /\ pc = "start"
  /\ inputs.github_token = ""
  /\ Finish(ActionFailed("Input required and not supplied: github_token"))
  /\ UNCHANGED <<evars, inputs, committerEmail, failedJobs, jobIndex, allLogs, logsToAnalyze,
                 usedKeywordExtraction, slackUser, calls, outputs, warnings>>

\* Lines 236-238.
FailUnknownProvider ==
  /\ pc = "start"
  /\ inputs.github_token # ""
  /\ Provider \notin KnownProviders
  /\ Finish(<<"Unknown provider: ", Provider>>)
  /\ UNCHANGED <<evars, inputs, committerEmail, failedJobs, jobIndex, allLogs, logsToAnalyze,
                 usedKeywordExtraction, slackUser, calls, outputs, warnings>>

\* The missing-key check without its return: setFailed, and run() goes on.
FailMissingApiKeyContinues ==
  /\ pc = "start"
  /\ inputs.github_token # ""
  /\ Provider \in KnownProviders
  /\ ApiKey = ""
  /\ failed' = <<Provider, "_api_key is required">>
  /\ pc' = "getWorkflowRun"
  /\ UNCHANGED <<evars, inputs, committerEmail, failedJobs, jobIndex, allLogs, logsToAnalyze,
                 usedKeywordExtraction, slackUser, calls, outputs, warnings>>

\* Lines 241-244.
FailMissingApiKey ==
  /\ pc = "start"
  /\ inputs.github_token # ""
  /\ Provider \in KnownProviders
  /\ ApiKey = ""
  /\ Finish(<<Provider, "_api_key is required">>)
  /\ UNCHANGED <<evars, inputs, committerEmail, failedJobs, jobIndex, allLogs, logsToAnalyze,
                 usedKeywordExtraction, slackUser, calls, outputs, warnings>>

ProviderValid ==
  /\ inputs.github_token # ""
  /\ Provider \in KnownProviders
  /\ ApiKey # ""

\* The DM-mode check without its return: setFailed, and run() goes on.
FailDmWithoutBotTokenContinues ==
  /\ pc = "start"
  /\ ProviderValid
  /\ NotificationMode = "dm" /\ inputs.slack_bot_token = ""
  /\ failed' = <<"slack_bot_token is required for DM mode">>
  /\ pc' = "getWorkflowRun"
  /\ UNCHANGED <<evars, inputs, committerEmail, failedJobs, jobIndex, allLogs, logsToAnalyze,
                 usedKeywordExtraction, slackUser, calls, outputs, warnings>>

\* Lines 251-254.
FailDmWithoutBotToken ==
  /\ pc = "start"
  /\ ProviderValid
  /\ NotificationMode = "dm" /\ inputs.slack_bot_token = ""
  /\ Finish(<<"slack_bot_token is required for DM mode">>)
  /\ UNCHANGED <<evars, inputs, committerEmail, failedJobs, jobIndex, allLogs, logsToAnalyze,
                 usedKeywordExtraction, slackUser, calls, outputs, warnings>>

\* Lines 255-258.
FailChannelWithoutTransport ==
  /\ pc = "start"
  /\ ProviderValid
  /\ ~(NotificationMode = "dm" /\ inputs.slack_bot_token = "")
  /\ NotificationMode = "channel" /\ inputs.slack_webhook_url = "" /\ inputs.slack_bot_token = ""
  /\ Finish(<<"slack_webhook_url or slack_bot_token is required for channel mode">>)
  /\ UNCHANGED <<evars, inputs, committerEmail, failedJobs, jobIndex, allLogs, logsToAnalyze,
                 usedKeywordExtraction, slackUser, calls, outputs, warnings>>

\* Lines 213-263: every check passes.
InputsValid ==
  /\ pc = "start"
  /\ ProviderValid
  /\ ~(NotificationMode = "dm" /\ inputs.slack_bot_token = "")
  /\ ~(NotificationMode = "channel" /\ inputs.slack_webhook_url = "" /\ inputs.slack_bot_token = "")
  /\ pc' = "getWorkflowRun"
  /\ UNCHANGED <<evars, inputs, committerEmail, failedJobs, jobIndex, allLogs, logsToAnalyze,
                 usedKeywordExtraction, slackUser, calls, outputs, failed, warnings>>

\* Lines 265-275.
GetWorkflowRun ==
  /\ pc = "getWorkflowRun"
  /\ \E email \in Emails : committerEmail' = email
  /\ calls' = Append(calls, Call("getWorkflowRun", "", "ok", ""))
  /\ pc' = "listJobs"
  /\ UNCHANGED <<evars, inputs, failedJobs, jobIndex, allLogs, logsToAnalyze,
                 usedKeywordExtraction, slackUser, outputs, failed, warnings>>

GetWorkflowRunThrows ==
  /\ pc = "getWorkflowRun"
  /\ calls' = Append(calls, Call("getWorkflowRun", "", "throw", ""))
  /\ Finish(ActionFailed("getWorkflowRun"))
  /\ UNCHANGED <<evars, inputs, committerEmail, failedJobs, jobIndex, allLogs, logsToAnalyze,
                 usedKeywordExtraction, slackUser, outputs, warnings>>

\* Lines 277-290: no job failed.
ListJobsNoneFailed ==
  /\ pc = "listJobs"
  /\ calls' = Append(calls, Call("listJobsForWorkflowRun", "", "ok", ""))
  /\ failedJobs' = <<>>
  /\ pc' = "done"
  /\ UNCHANGED <<evars, inputs, committerEmail, jobIndex, allLogs, logsToAnalyze,
                 usedKeywordExtraction, slackUser, outputs, failed, warnings>>

\* Lines 277-295: some jobs failed.
ListJobs ==
  /\ pc = "listJobs"
  /\ calls' = Append(calls, Call("listJobsForWorkflowRun", "", "ok", ""))
  /\ \E n \in 1..MaxJobs : failedJobs' = SubSeq(JobNames, 1, n)
  /\ allLogs' = <<>>
  /\ jobIndex' = 0
  /\ pc' = "fetch"
  /\ UNCHANGED <<evars, inputs, committerEmail, logsToAnalyze,
                 usedKeywordExtraction, slackUser, outputs, failed, warnings>>

ListJobsThrows ==
  /\ pc = "listJobs"
  /\ calls' = Append(calls, Call("listJobsForWorkflowRun", "", "throw", ""))
  /\ Finish(ActionFailed("listJobsForWorkflowRun"))
  /\ UNCHANGED <<evars, inputs, committerEmail, failedJobs, jobIndex, allLogs, logsToAnalyze,
                 usedKeywordExtraction, slackUser, outputs, warnings>>

\* Lines 296-306: one job's log is downloaded and appended.
FetchJobLogs ==
  /\ pc = "fetch"
  /\ jobIndex < Len(failedJobs)
  /\ LET name == failedJobs[jobIndex + 1]
     IN /\ calls' = Append(calls, Call("downloadJobLogsForWorkflowRun", name, "ok", ""))
        /\ \E log \in LogTexts : allLogs' = allLogs \o JobSection(name, log)
  /\ jobIndex' = jobIndex + 1
  /\ UNCHANGED <<evars, inputs, pc, committerEmail, failedJobs, logsToAnalyze,
                 usedKeywordExtraction, slackUser, outputs, failed, warnings>>

\* A failed download that is not caught in the loop: the outer catch ends
\* the run.
FetchJobLogsFailsAborts ==
  /\ pc = "fetch"
  /\ jobIndex < Len(failedJobs)
  /\ LET name == failedJobs[jobIndex + 1]
     IN calls' = Append(calls, Call("downloadJobLogsForWorkflowRun", name, "throw", ""))
  /\ Finish(ActionFailed("downloadJobLogsForWorkflowRun"))
  /\ UNCHANGED <<evars, inputs, committerEmail, failedJobs, jobIndex, allLogs, logsToAnalyze,
                 usedKeywordExtraction, slackUser, outputs, warnings>>

\* Lines 307-309: the download fails, a warning, the next job.
FetchJobLogsFails ==
  /\ pc = "fetch"
  /\ jobIndex < Len(failedJobs)
  /\ LET name == failedJobs[jobIndex + 1]
     IN /\ calls' = Append(calls, Call("downloadJobLogsForWorkflowRun", name, "throw", ""))
        /\ warnings' = Append(warnings, <<"Failed to fetch logs for job ", name>>)
  /\ jobIndex' = jobIndex + 1
  /\ UNCHANGED <<evars, inputs, pc, committerEmail, failedJobs, allLogs, logsToAnalyze,
                 usedKeywordExtraction, slackUser, outputs, failed>>

\* Lines 312-315.
NoLogsFetched ==
  /\ pc = "fetch"
  /\ jobIndex = Len(failedJobs)
  /\ allLogs = <<>>
  /\ Finish(<<"Could not fetch any logs from failed jobs">>)
  /\ UNCHANGED <<evars, inputs, committerEmail, failedJobs, jobIndex, allLogs, logsToAnalyze,
                 usedKeywordExtraction, slackUser, calls, outputs, warnings>>

\* Line 318: the call of extractRelevantLogs(allLogs, maxLogLines).
CallExtract ==
  /\ pc = "fetch"
  /\ jobIndex = Len(failedJobs)
  /\ allLogs # <<>>
  /\ logs' = allLogs
  /\ maxLines' = MaxLogLines
  /\ epc' = "scan"
  /\ pc' = "extract"
  /\ UNCHANGED <<lines, matchedLineIndices, extractedLines, result>>
  /\ UNCHANGED <<inputs, committerEmail, failedJobs, jobIndex, allLogs, logsToAnalyze,
                 usedKeywordExtraction, slackUser, calls, outputs, failed, warnings>>

\* Lines 319-322: the returned value is truthy.
UseKeywordExtraction ==
  /\ pc = "extract"
  /\ epc = "returned"
  /\ Truthy(result)
  /\ logsToAnalyze' = result.val
  /\ usedKeywordExtraction' = TRUE
  /\ pc' = "analyze"
  /\ UNCHANGED <<evars, inputs, committerEmail, failedJobs, jobIndex, allLogs,
                 slackUser, calls, outputs, failed, warnings>>

\* Lines 323-331: the returned value is falsy.
UseFallback ==
  /\ pc = "extract"
  /\ epc = "returned"
  /\ ~Truthy(result)
  /\ logsToAnalyze' = FallbackLogs(allLogs, MaxLogLines)
  /\ usedKeywordExtraction' = FALSE
  /\ pc' = "analyze"
  /\ UNCHANGED <<evars, inputs, committerEmail, failedJobs, jobIndex, allLogs,
                 slackUser, calls, outputs, failed, warnings>>

\* Lines 354-357, analyzeWithAI of lines 178-210.
AnalyzeWithAI ==
  /\ pc = "analyze"
  /\ Provider \in KnownProviders
  /\ calls' = Append(calls, Call("ai", Provider, "ok", "summary"))
  /\ outputs' = [outputs EXCEPT !.summary = "summary"]
  /\ pc' = "notify"
  /\ UNCHANGED <<evars, inputs, committerEmail, failedJobs, jobIndex, allLogs, logsToAnalyze,
                 usedKeywordExtraction, slackUser, failed, warnings>>

\* The AI failure caught around the call alone: the run is marked failed and
\* goes on to the notification.
AnalyzeWithAIThrowsCaughtLocally ==
  /\ pc = "analyze"
  /\ calls' = IF Provider \in KnownProviders
              THEN Append(calls, Call("ai", Provider, "throw", "")) ELSE calls
  /\ failed' = ActionFailed("ai")
  /\ pc' = "notify"
  /\ UNCHANGED <<evars, inputs, committerEmail, failedJobs, jobIndex, allLogs, logsToAnalyze,
                 usedKeywordExtraction, slackUser, outputs, warnings>>

\* analyzeWithAI throws: the backend fails (or, line 208, the provider is
\* unknown).
AnalyzeWithAIThrows ==
  /\ pc = "analyze"
  /\ calls' = IF Provider \in KnownProviders
              THEN Append(calls, Call("ai", Provider, "throw", "")) ELSE calls
  /\ Finish(ActionFailed("ai"))
  /\ UNCHANGED <<evars, inputs, committerEmail, failedJobs, jobIndex, allLogs, logsToAnalyze,
                 usedKeywordExtraction, slackUser, outputs, warnings>>

\* ------------------------------------------------------------- notification
SlackUsers == {"U1"}
DmChannels == {"D1"}

NoUserWarning == <<"Could not find Slack user for email: ", committerEmail>>

\* The channel posted to by mistake: the user id given to conversations.open.
DmPostChannelUserId(openCall) == openCall.arg

\* Line 118: channelId = openData.channel.id
DmPostChannel(openCall) == openCall.ret

\* Lines 423-426, lookupSlackUserByEmail of lines 89-100: the lookup answers,
\* with a user or with ok: false.
LookupUser ==
  /\ pc = "notify"
  /\ NotificationMode = "dm"
  /\ committerEmail # ""
  /\ \E u \in SlackUsers \cup {""} :
       /\ slackUser' = u
       /\ calls' = Append(calls, Call("users.lookupByEmail", committerEmail,
                                      IF u = "" THEN "error" ELSE "ok", u))
  /\ pc' = "resolved"
  /\ UNCHANGED <<evars, inputs, committerEmail, failedJobs, jobIndex, allLogs, logsToAnalyze,
                 usedKeywordExtraction, outputs, failed, warnings>>

\* The lookup request is rejected: the catch.
LookupUserThrows ==
  /\ pc = "notify"
  /\ NotificationMode = "dm"
  /\ committerEmail # ""
  /\ calls' = Append(calls, Call("users.lookupByEmail", committerEmail, "throw", ""))
  /\ Finish(ActionFailed("users.lookupByEmail"))
  /\ UNCHANGED <<evars, inputs, committerEmail, failedJobs, jobIndex, allLogs, logsToAnalyze,
                 usedKeywordExtraction, slackUser, outputs, warnings>>

\* Lines 423-424: no email, no lookup.
SkipLookup ==
  /\ pc = "notify"
  /\ NotificationMode = "dm"
  /\ committerEmail = ""
  /\ slackUser' = ""
  /\ pc' = "resolved"
  /\ UNCHANGED <<evars, inputs, committerEmail, failedJobs, jobIndex, allLogs, logsToAnalyze,
                 usedKeywordExtraction, calls, outputs, failed, warnings>>

\* sendSlackDM, lines 103-118: the DM channel is opened.
OpenDM ==
  /\ pc = "resolved"
  /\ slackUser # ""
  /\ \E ch \in DmChannels :
       calls' = Append(calls, Call("conversations.open", slackUser, "ok", ch))
  /\ pc' = "postDM"
  /\ UNCHANGED <<evars, inputs, committerEmail, failedJobs, jobIndex, allLogs, logsToAnalyze,
                 usedKeywordExtraction, slackUser, outputs, failed, warnings>>

\* A failed open rerouted: the user is treated as not found, and run() goes
\* on to the fallback branch.
OpenDMFailsReroutes ==
  /\ pc = "resolved"
  /\ slackUser # ""
  /\ \E r \in Failures :
       calls' = Append(calls, Call("conversations.open", slackUser, r, ""))
  /\ slackUser' = ""
  /\ UNCHANGED <<evars, inputs, pc, committerEmail, failedJobs, jobIndex, allLogs, logsToAnalyze,
                 usedKeywordExtraction, failed, outputs, warnings>>

\* sendSlackDM, lines 114-116: the open fails; the catch.
OpenDMFails ==
  /\ pc = "resolved"
  /\ slackUser # ""
  /\ \E r \in Failures :
       /\ calls' = Append(calls, Call("conversations.open", slackUser, r, ""))
       /\ Finish(ActionFailed(ErrorMessage(r, "Failed to open DM")))
  /\ UNCHANGED <<evars, inputs, committerEmail, failedJobs, jobIndex, allLogs, logsToAnalyze,
                 usedKeywordExtraction, slackUser, outputs, warnings>>

\* sendSlackDM, lines 120-138, then lines 431-432.
PostDM ==
  /\ pc = "postDM"
  /\ calls' = Append(calls, Call("chat.postMessage", DmPostChannel(calls[Len(calls)]), "ok", "ts"))
  /\ outputs' = [outputs EXCEPT !.notified_user = slackUser]
  /\ pc' = "done"
  /\ UNCHANGED <<evars, inputs, committerEmail, failedJobs, jobIndex, allLogs, logsToAnalyze,
                 usedKeywordExtraction, slackUser, failed, warnings>>

\* sendSlackDM, lines 134-136: the post fails; the catch.
PostDMFails ==
  /\ pc = "postDM"
  /\ \E r \in Failures :
       /\ calls' = Append(calls, Call("chat.postMessage", DmPostChannel(calls[Len(calls)]), r, ""))
       /\ Finish(ActionFailed(ErrorMessage(r, "Failed to send DM")))
  /\ UNCHANGED <<evars, inputs, committerEmail, failedJobs, jobIndex, allLogs, logsToAnalyze,
                 usedKeywordExtraction, slackUser, outputs, warnings>>

\* The fallback branch that logs the fallback and sends nothing.
PostFallbackWithoutSend ==
  /\ pc = "resolved"
  /\ slackUser = ""
  /\ inputs.fallback_channel # ""
  /\ warnings' = Append(warnings, NoUserWarning)
  /\ pc' = "done"
  /\ UNCHANGED <<evars, inputs, committerEmail, failedJobs, jobIndex, allLogs, logsToAnalyze,
                 usedKeywordExtraction, slackUser, calls, outputs, failed>>

\* Lines 433-439, sendSlackChannel of lines 141-160.
PostFallback ==
  /\ pc = "resolved"
  /\ slackUser = ""
  /\ inputs.fallback_channel # ""
  /\ warnings' = Append(warnings, NoUserWarning)
  /\ calls' = Append(calls, Call("chat.postMessage", inputs.fallback_channel, "ok", "ts"))
  /\ pc' = "done"
  /\ UNCHANGED <<evars, inputs, committerEmail, failedJobs, jobIndex, allLogs, logsToAnalyze,
                 usedKeywordExtraction, slackUser, outputs, failed>>

\* Lines 155-157: the post to the fallback channel fails; the catch.
PostFallbackFails ==
  /\ pc = "resolved"
  /\ slackUser = ""
  /\ inputs.fallback_channel # ""
  /\ warnings' = Append(warnings, NoUserWarning)
  /\ \E r \in Failures :
       /\ calls' = Append(calls, Call("chat.postMessage", inputs.fallback_channel, r, ""))
       /\ Finish(ActionFailed(ErrorMessage(r, "Failed to send to channel")))
  /\ UNCHANGED <<evars, inputs, committerEmail, failedJobs, jobIndex, allLogs, logsToAnalyze,
                 usedKeywordExtraction, slackUser, outputs>>

NoUserNoFallback == <<"Could not find Slack user and no fallback channel configured">>

\* The no-fallback branch that throws into the catch instead of setFailed.
FailNoSlackUserThrows ==
  /\ pc = "resolved"
  /\ slackUser = ""
  /\ inputs.fallback_channel = ""
  /\ warnings' = Append(warnings, NoUserWarning)
  /\ Finish(ActionFailed("Could not find Slack user and no fallback channel configured"))
  /\ UNCHANGED <<evars, inputs, committerEmail, failedJobs, jobIndex, allLogs, logsToAnalyze,
                 usedKeywordExtraction, slackUser, calls, outputs>>

\* Lines 440-443.
FailNoSlackUser ==
  /\ pc = "resolved"
  /\ slackUser = ""
  /\ inputs.fallback_channel = ""
  /\ warnings' = Append(warnings, NoUserWarning)
  /\ Finish(NoUserNoFallback)
  /\ UNCHANGED <<evars, inputs, committerEmail, failedJobs, jobIndex, allLogs, logsToAnalyze,
                 usedKeywordExtraction, slackUser, calls, outputs>>

\* The channel branch that posts with the bot token when it can, and to the
\* webhook only otherwise.
SendWebhookPrefersBot ==
  /\ pc = "notify"
  /\ NotificationMode # "dm"
  /\ inputs.slack_webhook_url # ""
  /\ calls' = Append(calls,
       IF inputs.slack_bot_token # "" /\ inputs.fallback_channel # ""
       THEN Call("chat.postMessage", inputs.fallback_channel, "ok", "ts")
       ELSE Call("webhook", inputs.slack_webhook_url, "ok", ""))
  /\ pc' = "done"
  /\ UNCHANGED <<evars, inputs, committerEmail, failedJobs, jobIndex, allLogs, logsToAnalyze,
                 usedKeywordExtraction, slackUser, outputs, failed, warnings>>

\* Lines 449-450, sendSlackWebhook of lines 162-176.
SendWebhook ==
  /\ pc = "notify"
  /\ NotificationMode # "dm"
  /\ inputs.slack_webhook_url # ""
  /\ calls' = Append(calls, Call("webhook", inputs.slack_webhook_url, "ok", ""))
  /\ pc' = "done"
  /\ UNCHANGED <<evars, inputs, committerEmail, failedJobs, jobIndex, allLogs, logsToAnalyze,
                 usedKeywordExtraction, slackUser, outputs, failed, warnings>>

SendWebhookFails ==
  /\ pc = "notify"
  /\ NotificationMode # "dm"
  /\ inputs.slack_webhook_url # ""
  /\ \E r \in Failures :
       /\ calls' = Append(calls, Call("webhook", inputs.slack_webhook_url, r, ""))
       /\ Finish(ActionFailed(ErrorMessage(r, "Slack webhook failed")))
  /\ UNCHANGED <<evars, inputs, committerEmail, failedJobs, jobIndex, allLogs, logsToAnalyze,
                 usedKeywordExtraction, slackUser, outputs, warnings>>

\* Lines 451-452.
SendChannel ==
  /\ pc = "notify"
  /\ NotificationMode # "dm"
  /\ inputs.slack_webhook_url = ""
  /\ inputs.slack_bot_token # "" /\ inputs.fallback_channel # ""
  /\ calls' = Append(calls, Call("chat.postMessage", inputs.fallback_channel, "ok", "ts"))
  /\ pc' = "done"
  /\ UNCHANGED <<evars, inputs, committerEmail, failedJobs, jobIndex, allLogs, logsToAnalyze,
                 usedKeywordExtraction, slackUser, outputs, failed, warnings>>

SendChannelFails ==
  /\ pc = "notify"
  /\ NotificationMode # "dm"
  /\ inputs.slack_webhook_url = ""
  /\ inputs.slack_bot_token # "" /\ inputs.fallback_channel # ""
  /\ \E r \in Failures :
       /\ calls' = Append(calls, Call("chat.postMessage", inputs.fallback_channel, r, ""))
       /\ Finish(ActionFailed(ErrorMessage(r, "Failed to send to channel")))
  /\ UNCHANGED <<evars, inputs, committerEmail, failedJobs, jobIndex, allLogs, logsToAnalyze,
                 usedKeywordExtraction, slackUser, outputs, warnings>>

\* Lines 449-455: neither branch of the channel mode applies; nothing is sent.
SendNothing ==
  /\ pc = "notify"
  /\ NotificationMode # "dm"
  /\ inputs.slack_webhook_url = ""
  /\ ~(inputs.slack_bot_token # "" /\ inputs.fallback_channel # "")
  /\ pc' = "done"
  /\ UNCHANGED <<evars, inputs, committerEmail, failedJobs, jobIndex, allLogs, logsToAnalyze,
                 usedKeywordExtraction, slackUser, calls, outputs, failed, warnings>>

\* --------------------------------------------------------------- the program
\* The API keys given: all of them, none, or the Anthropic one only.
KeyInputs ==
  { [anthropic |-> a, groq |-> o, gemini |-> o] : a, o \in {"", "key"} } \
    { [anthropic |-> "", groq |-> "key", gemini |-> "key"] }

InputValues ==
  { [github_token |-> gh, provider |-> pr,
     anthropic_api_key |-> k.anthropic, groq_api_key |-> k.groq, gemini_api_key |-> k.gemini,
     slack_bot_token |-> bt, slack_webhook_url |-> wh,
     notification_mode |-> nm, fallback_channel |-> fc, max_log_lines |-> ml] :
     gh \in {"", "ghs"}, pr \in {"", "groq", "gemini", "foo"}, k \in KeyInputs,
     bt \in {"", "xoxb"}, wh \in {"", "https://hooks.slack.com/T1"},
     nm \in {"", "dm", "thread"}, fc \in {"", "C1"},
     ml \in {<<>>} \cup { <<n>> : n \in (0 - MaxNegBudget)..MaxBudget } }

Init ==
  /\ inputs \in InputValues
  /\ pc = "start"
  /\ logs = <<>>
  /\ maxLines = 0
  /\ lines = <<>>
  /\ matchedLineIndices = {}
  /\ extractedLines = <<>>
  /\ result = Null
  /\ epc = "idle"
  /\ committerEmail = ""
  /\ failedJobs = <<>>
  /\ jobIndex = 0
  /\ allLogs = <<>>
  /\ logsToAnalyze = <<>>
  /\ usedKeywordExtraction = FALSE
  /\ slackUser = ""
  /\ calls = <<>>
  /\ outputs = NoOutputs
  /\ failed = <<>>
  /\ warnings = <<>>

Next ==
  \/ FailMissingGithubToken
  \/ FailUnknownProvider
  \/ FailMissingApiKey
  \/ FailDmWithoutBotToken
  \/ FailChannelWithoutTransport
  \/ InputsValid
  \/ GetWorkflowRun
  \/ GetWorkflowRunThrows
  \/ ListJobsNoneFailed
  \/ ListJobs
  \/ ListJobsThrows
  \/ FetchJobLogs
  \/ FetchJobLogsFails
  \/ NoLogsFetched
  \/ CallExtract
  \/ ScanLines
  \/ ReturnNull
  \/ GroupLines
  \/ ReturnTruncated
  \/ ReturnAll
  \/ UseKeywordExtraction
  \/ UseFallback
  \/ AnalyzeWithAI
  \/ AnalyzeWithAIThrows
  \/ LookupUser
  \/ LookupUserThrows
  \/ SkipLookup
  \/ OpenDM
  \/ OpenDMFails
  \/ PostDM
  \/ PostDMFails
  \/ PostFallback
  \/ PostFallbackFails
  \/ FailNoSlackUser
  \/ SendWebhook
  \/ SendWebhookFails
  \/ SendChannel
  \/ SendChannelFails
  \/ SendNothing

Spec == Init /\ [][Next]_vars

\* ------------------------------------------------ helpers of the properties
\* The line indices of ls that match a signature.
MatchingIndices(ls) == { i \in 0..(Len(ls) - 1) : LineMatches(ls[i + 1]) }

\* The entries the grouping loop pushes for the current corpus.
Entries == GroupEntries(SortIndices(matchedLineIndices))

\* The position in entries of each kept corpus index.
Positions(entries) ==
  [idx \in matchedLineIndices |-> CHOOSE p \in 1..Len(entries) : entries[p] = idx]

\* The separator lines of extractedLines strictly between two positions.
SeparatorsBetween(p, q) ==
  Cardinality({ r \in (p + 1)..(q - 1) : extractedLines[r] = <<SEPARATOR>> })

\* The lines of a returned string; the empty string holds none.
ResultLines(v) == IF v.val = <<>> THEN <<>> ELSE Split(v.val)

StrictlyIncreasing(seq) == \A k \in 1..(Len(seq) - 1) : seq[k] < seq[k + 1]

IsSeparatorLine(l) == l = <<SEPARATOR>>
NotSeparatorLine(l) == l # <<SEPARATOR>>
NotSkipMark(e) == e # SkipMark

RECURSIVE IsSubseqFrom(_, _, _, _)
IsSubseqFrom(a, i, b, j) ==
  IF i > Len(a) THEN TRUE
  ELSE IF j > Len(b) THEN FALSE
  ELSE IF a[i] = b[j] THEN IsSubseqFrom(a, i + 1, b, j + 1)
  ELSE IsSubseqFrom(a, i, b, j + 1)

\* a is b with some elements left out, the order kept.
IsSubsequence(a, b) == IsSubseqFrom(a, 1, b, 1)

\* The last n elements of seq, for 0 <= n <= Len(seq).
LastN(seq, n) == SubSeq(seq, Len(seq) - n + 1, Len(seq))

\* i < j are in the set M of matching indices and nothing between them is.
AdjacentMatches(M, i, j) ==
  /\ i \in M
  /\ j \in M
  /\ i < j
  /\ \A m \in (i + 1)..(j - 1) : m \notin M

Grouped == epc \in {"grouped", "returned"} /\ matchedLineIndices # {}

\* ------------------------------------------------------------------- claims

\* C1: a corpus in which no line matches a signature makes
\* extractRelevantLogs return null, whatever maxLines is: never an empty
\* string or another value.
C1_NoMatchReturnsNull ==
  (epc = "returned" /\ MatchingIndices(Split(logs)) = {}) => result = Null

C1_Witness ==
  /\ epc = "returned"
  /\ MatchingIndices(Split(logs)) = {}
  /\ Len(Split(logs)) > 2
  /\ maxLines = 0
  /\ result = Null

\* C3: the non-separator lines of the excerpt are the corpus lines at a
\* strictly increasing sequence of corpus indices, before truncation (the
\* entries pushed by the grouping loop) and after it (the returned text is a
\* subsequence of the corpus).
C3_OrderPreserved ==
  /\ Grouped =>
       LET entries == Entries
       IN /\ Len(extractedLines) = Len(entries)
          /\ StrictlyIncreasing(SelectSeq(entries, NotSkipMark))
          /\ \A k \in 1..Len(entries) :
               IF entries[k] = SkipMark THEN IsSeparatorLine(extractedLines[k])
               ELSE /\ entries[k] \in 0..(Len(lines) - 1)
                    /\ extractedLines[k] = lines[entries[k] + 1]
  /\ (epc = "returned" /\ result # Null) =>
       IsSubsequence(SelectSeq(ResultLines(result), NotSeparatorLine), lines)

C3_Witness ==
  /\ epc = "returned"
  /\ result # Null
  /\ Len(extractedLines) > maxLines
  /\ maxLines = 4
  /\ \E k \in 1..Len(extractedLines) : IsSeparatorLine(extractedLines[k])
  /\ \E i \in MatchingIndices(lines) : i >= 10

\* C4 (as claimed, for budgets maxLines >= 0): an excerpt of more than
\* maxLines lines is returned as exactly its last maxLines lines, and a
\* shorter one unchanged.
C4_TruncatesToBudget ==
  (epc = "returned" /\ result # Null /\ maxLines >= 0) =>
    IF Len(extractedLines) > maxLines
    THEN /\ result.val = Join(LastN(extractedLines, maxLines))
         /\ maxLines > 0 => Len(Split(result.val)) = maxLines
    ELSE result.val = Join(extractedLines)

\* C5 (as claimed): two matches i < j with no match between them and
\* j - i > 2 * CONTEXT_LINES have exactly one separator between their windows.
C5_SeparatorBeyondTwiceRadius ==
  Grouped =>
    LET M == MatchingIndices(lines)
        pos == Positions(Entries)
    IN \A i, j \in M :
         (AdjacentMatches(M, i, j) /\ j - i > 2 * CONTEXT_LINES) =>
           SeparatorsBetween(pos[i + CONTEXT_LINES], pos[j - CONTEXT_LINES]) = 1

\* C5 (amended): two matches i < j with no match between them and
\* j - i > 2 * CONTEXT_LINES + 1 have exactly one separator between their
\* windows, placed right between the last line of the first window and the
\* first line of the second.
C5_SeparatorBetweenDistantWindows ==
  Grouped =>
    LET M == MatchingIndices(lines)
        pos == Positions(Entries)
    IN \A i, j \in M :
         (AdjacentMatches(M, i, j) /\ j - i > 2 * CONTEXT_LINES + 1) =>
           /\ SeparatorsBetween(pos[i + CONTEXT_LINES], pos[j - CONTEXT_LINES]) = 1
           /\ pos[j - CONTEXT_LINES] = pos[i + CONTEXT_LINES] + 2

C5_Witness ==
  /\ epc = "grouped"
  /\ LET M == MatchingIndices(lines)
         pos == Positions(Entries)
     IN \E i, j \in M :
          /\ AdjacentMatches(M, i, j)
          /\ j - i > 2 * CONTEXT_LINES + 1
          /\ extractedLines[pos[i + CONTEXT_LINES] + 1] = <<SEPARATOR>>

\* C6: two matches whose clamped windows overlap give one run of consecutive
\* corpus lines, from the first line of the earlier window to the last line
\* of the later one, with no separator in it.
C6_OverlappingWindowsMerge ==
  Grouped =>
    LET M == MatchingIndices(lines)
        pos == Positions(Entries)
        n == Len(lines)
    IN \A i, j \in M :
         (i < j /\ ContextWindow(i, n) \cap ContextWindow(j, n) # {}) =>
           LET lo == Max(0, i - CONTEXT_LINES)
               hi == Min(n - 1, j + CONTEXT_LINES)
           IN /\ (lo..hi) \subseteq matchedLineIndices
              /\ SeparatorsBetween(pos[lo] - 1, pos[hi] + 1) = 0
              /\ \A m \in lo..hi : pos[m] = pos[lo] + (m - lo)
              /\ \A m \in lo..hi : extractedLines[pos[m]] = lines[m + 1]

C6_Witness ==
  /\ epc = "grouped"
  /\ LET M == MatchingIndices(lines)
         n == Len(lines)
     IN \E i, j \in M :
          /\ i < j
          /\ j - i = 2 * CONTEXT_LINES
          /\ ContextWindow(i, n) \cap ContextWindow(j, n) # {}

\* ------------------------------------------------- properties of run()
\* run() is past the choice between the excerpt and the fallback.
StrategyChosen ==
  epc = "returned" /\ pc \in {"analyze", "notify", "resolved", "postDM", "done"}

\* The lines of a text, none for the empty text.
TextLines(t) == IF t = <<>> THEN <<>> ELSE Split(t)

SlackApis == {"users.lookupByEmail", "conversations.open", "chat.postMessage", "webhook"}
IsSlackCall(c) == c.api \in SlackApis

\* The Slack calls of the run, in order.
SlackCalls == SelectSeq(calls, IsSlackCall)

CallsOf(api) == { k \in 1..Len(calls) : calls[k].api = api }

\* The identity could not be resolved: run() reached the else of line 433.
Unresolved == \E k \in 1..Len(warnings) : warnings[k] = NoUserWarning

DmMode == NotificationMode = "dm"

\* C2 (as claimed): run() takes the fallback if and only if no corpus line
\* matched a signature; when a line matched, extractRelevantLogs returns a
\* string that is not empty and run() hands that excerpt to the AI.
C2_FallbackIffNoMatch ==
  StrategyChosen =>
    LET anyMatch == MatchingIndices(Split(allLogs)) # {}
    IN /\ usedKeywordExtraction <=> anyMatch
       /\ anyMatch => /\ result # Null
                      /\ result.val # <<>>
                      /\ logsToAnalyze = result.val

\* C7 (as claimed, for budgets max_log_lines >= 0): when the extraction
\* returns null, the text handed to the AI is the last maxLogLines lines of
\* the corpus, the whole corpus when it has no more, and never has more than
\* maxLogLines lines.
C7_FallbackIsTrailingLines ==
  (StrategyChosen /\ result = Null /\ MaxLogLines >= 0) =>
    LET corpus == Split(allLogs)
    IN /\ logsToAnalyze = IF Len(corpus) <= MaxLogLines THEN allLogs
                          ELSE Join(LastN(corpus, MaxLogLines))
       /\ Len(TextLines(logsToAnalyze)) <= MaxLogLines

\* C8: a DM-mode run that resolved a user and met no transport error ends
\* delivered by DM: the Slack calls are the lookup, the open for that user
\* and the post to the channel the open returned, in this order, and
\* notified_user is the user's id; and notified_user is never set unless
\* the DM post succeeded.
C8_DmDelivered ==
  /\ (pc = "done" /\ DmMode /\ slackUser # ""
        /\ \A k \in 1..Len(SlackCalls) : SlackCalls[k].res = "ok") =>
       /\ failed = <<>>
       /\ Len(SlackCalls) = 3
       /\ SlackCalls[1] = Call("users.lookupByEmail", committerEmail, "ok", slackUser)
       /\ SlackCalls[2].api = "conversations.open" /\ SlackCalls[2].arg = slackUser
       /\ SlackCalls[3] = Call("chat.postMessage", SlackCalls[2].ret, "ok", "ts")
       /\ SlackCalls[3].arg \in DmChannels
       /\ committerEmail # ""
       /\ outputs.notified_user = slackUser
  /\ outputs.notified_user # "" =>
       /\ outputs.notified_user = slackUser
       /\ DmMode
       /\ failed = <<>>
       /\ calls[Len(calls)].api = "chat.postMessage"
       /\ calls[Len(calls)].res = "ok"
       /\ calls[Len(calls) - 1].api = "conversations.open"
       /\ calls[Len(calls)].arg = calls[Len(calls) - 1].ret

C8_Witness ==
  /\ pc = "done"
  /\ DmMode
  /\ slackUser \in SlackUsers
  /\ inputs.fallback_channel # ""
  /\ inputs.slack_webhook_url # ""
  /\ failed = <<>>
  /\ outputs.notified_user = slackUser
  /\ Len(SlackCalls) = 3

\* C9 (as claimed): a DM-mode run with a fallback channel whose author
\* could not be resolved ends with the message posted to the fallback
\* channel and never ends failed.
C9_FallbackNeverFails ==
  (pc = "done" /\ DmMode /\ inputs.fallback_channel # "" /\ Unresolved) =>
    /\ failed = <<>>
    /\ calls[Len(calls)] = Call("chat.postMessage", inputs.fallback_channel, "ok", "ts")

\* C9 (amended): a DM-mode run with a fallback channel whose author could
\* not be resolved (no email, or a lookup answered without a user) makes
\* exactly one post, to the fallback channel, and opens no DM; it ends
\* delivered when that post succeeds and failed with the transport error
\* when it does not, never with the no-user reason.
C9_FallbackDelivered ==
  (pc = "done" /\ DmMode /\ inputs.fallback_channel # "" /\ Unresolved) =>
    LET last == calls[Len(calls)]
    IN /\ Len(calls) > 0
       /\ last.api = "chat.postMessage"
       /\ last.arg = inputs.fallback_channel
       /\ CallsOf("chat.postMessage") = {Len(calls)}
       /\ CallsOf("conversations.open") = {}
       /\ CallsOf("webhook") = {}
       /\ outputs.notified_user = ""
       /\ failed # NoUserNoFallback
       /\ last.res = "ok" => failed = <<>>
       /\ last.res # "ok" => failed = ActionFailed(ErrorMessage(last.res, "Failed to send to channel"))

C9_Witness ==
  /\ pc = "done"
  /\ DmMode
  /\ inputs.fallback_channel # ""
  /\ Unresolved
  /\ committerEmail # ""
  /\ failed = <<>>
  /\ calls[Len(calls)] = Call("chat.postMessage", inputs.fallback_channel, "ok", "ts")

\* C10: a DM-mode run without a fallback channel whose author could not be
\* resolved ends failed with the reason 'Could not find Slack user and no
\* fallback channel configured', which is not an 'Action failed: ...'
\* message, and makes no DM-open, post-message or webhook call.
C10_NoUserNoFallbackFails ==
  (DmMode /\ inputs.fallback_channel = "" /\ (Unresolved \/ (pc = "resolved" /\ slackUser = ""))) =>
    /\ pc = "done" =>
         /\ failed = NoUserNoFallback
         /\ failed[1] # "Action failed: "
    /\ CallsOf("conversations.open") = {}
    /\ CallsOf("chat.postMessage") = {}
    /\ CallsOf("webhook") = {}
    /\ outputs.notified_user = ""

C10_Witness ==
  /\ pc = "done"
  /\ DmMode
  /\ inputs.fallback_channel = ""
  /\ inputs.slack_webhook_url # ""
  /\ Unresolved
  /\ committerEmail # ""
  /\ failed = NoUserNoFallback

\* run() went past the AI call into the notification step.
ReachedNotification == outputs.summary # ""

BotTokenApis == {"users.lookupByEmail", "conversations.open", "chat.postMessage"}

\* C11: a run that is not in DM mode and has a webhook URL makes no
\* bot-token call (lookup, conversations.open, chat.postMessage), whatever
\* the bot token and the fallback channel are; its only Slack call is one
\* webhook POST, made to the configured URL when the notification step ends.
C11_WebhookOnly ==
  (NotificationMode # "dm" /\ inputs.slack_webhook_url # "") =>
    /\ \A k \in 1..Len(calls) : calls[k].api \notin BotTokenApis
    /\ Len(SlackCalls) <= 1
    /\ (pc = "done" /\ ReachedNotification) =>
         /\ Len(SlackCalls) = 1
         /\ calls[Len(calls)].api = "webhook"
         /\ calls[Len(calls)].arg = inputs.slack_webhook_url

C11_Witness ==
  /\ pc = "done"
  /\ NotificationMode = "channel"
  /\ inputs.slack_webhook_url # ""
  /\ inputs.slack_bot_token # ""
  /\ inputs.fallback_channel # ""
  /\ failed = <<>>
  /\ SlackCalls = <<Call("webhook", inputs.slack_webhook_url, "ok", "")>>

MissingGithubToken == ActionFailed("Input required and not supplied: github_token")

\* The provider selector is unknown, or the selected provider has no key.
BadProviderConfig == Provider \notin KnownProviders \/ ApiKey = ""

\* C12: a run whose provider is not 'anthropic', 'groq' or 'gemini', or whose
\* key for the selected provider is empty, makes no network call at all (no
\* GitHub, AI or Slack call, so no other provider is tried) and ends failed
\* with a configuration error: the unknown provider, the missing key, or,
\* when github_token is missing too, that required input.
C12_BadProviderFailsEarly ==
  BadProviderConfig =>
    /\ calls = <<>>
    /\ pc \in {"start", "done"}
    /\ outputs = NoOutputs
    /\ pc = "start" => failed = <<>>
    /\ pc = "done" =>
         failed = IF inputs.github_token = "" THEN MissingGithubToken
                  ELSE IF Provider \notin KnownProviders THEN <<"Unknown provider: ", Provider>>
                  ELSE <<Provider, "_api_key is required">>

C12_Witness ==
  /\ pc = "done"
  /\ Provider = "groq"
  /\ inputs.groq_api_key = ""
  /\ inputs.anthropic_api_key # ""
  /\ inputs.slack_webhook_url # ""
  /\ failed = <<"groq", "_api_key is required">>
  /\ calls = <<>>

BotTokenRequired == <<"slack_bot_token is required for DM mode">>

\* C13 (as claimed): a DM-mode run without a bot token makes no network call
\* and ends failed with 'slack_bot_token is required for DM mode', whatever
\* else is configured.
C13_DmWithoutTokenMessage ==
  (DmMode /\ inputs.slack_bot_token = "") =>
    /\ calls = <<>>
    /\ pc = "done" => failed = BotTokenRequired

\* C13 (amended): a DM-mode run without a bot token makes no network call and
\* ends failed, whatever the webhook URL and the fallback channel are; the
\* message is 'slack_bot_token is required for DM mode' when github_token,
\* the provider and its key are valid, and the error of that earlier check
\* otherwise.
C13_DmWithoutTokenFailsEarly ==
  (DmMode /\ inputs.slack_bot_token = "") =>
    /\ calls = <<>>
    /\ pc \in {"start", "done"}
    /\ outputs = NoOutputs
    /\ pc = "done" =>
         /\ failed # <<>>
         /\ ProviderValid <=> failed = BotTokenRequired

C13_Witness ==
  /\ pc = "done"
  /\ DmMode
  /\ inputs.slack_bot_token = ""
  /\ inputs.slack_webhook_url # ""
  /\ inputs.fallback_channel # ""
  /\ failed = BotTokenRequired
  /\ calls = <<>>

NoSlackTransport == inputs.slack_webhook_url = "" /\ inputs.slack_bot_token = ""

\* C14: a run configured with neither a webhook URL nor a bot token makes no
\* call to GitHub, the AI or Slack and ends failed at input validation,
\* whatever notification_mode is.
C14_NoTransportFailsValidation ==
  NoSlackTransport =>
    /\ calls = <<>>
    /\ pc \in {"start", "done"}
    /\ pc = "done" => failed # <<>>

AiThrew == \E k \in CallsOf("ai") : calls[k].res = "throw"

\* C15: once the AI provider call has thrown, the run is over and failed with
\* the error of that call, the AI was called exactly once and that call is
\* the last call of the run, the summary output is not set and no Slack call
\* (lookup, DM open, post, webhook) was made.
C15_AiFailureEndsRun ==
  AiThrew =>
    /\ pc = "done"
    /\ failed = ActionFailed("ai")
    /\ Cardinality(CallsOf("ai")) = 1
    /\ calls[Len(calls)].api = "ai"
    /\ outputs = NoOutputs
    /\ SlackCalls = <<>>

C15_Witness ==
  /\ AiThrew
  /\ pc = "done"
  /\ inputs.slack_webhook_url # ""
  /\ inputs.slack_bot_token # ""
  /\ Len(calls) >= 4

SendApis == {"chat.postMessage", "webhook"}

\* The sends of the message that succeeded.
Delivered == { k \in 1..Len(calls) : calls[k].api \in SendApis /\ calls[k].res = "ok" }

DocumentedModes == {"dm", "channel"}

\* C16: a run in one of the documented modes that reached the notification
\* step and is over is either marked failed or has sent the message exactly
\* once: one successful post or webhook call, and no other send attempted.
C16_DeliveredOrFailed ==
  (pc = "done" /\ ReachedNotification /\ failed = <<>> /\ NotificationMode \in DocumentedModes) =>
    /\ Cardinality(Delivered) = 1
    /\ Cardinality(CallsOf("chat.postMessage") \cup CallsOf("webhook")) = 1

\* The steps that send: DM open, post (DM or channel), webhook.
SendStepApis == {"conversations.open", "chat.postMessage", "webhook"}

\* The Slack calls that failed in transport: a send step that was rejected or
\* answered with an error, or a lookup whose request was rejected.
TransportErrors ==
  { k \in 1..Len(calls) :
      \/ calls[k].api \in SendStepApis /\ calls[k].res \in Failures
      \/ calls[k].api = "users.lookupByEmail" /\ calls[k].res = "throw" }

FailedCalls(api) == { k \in CallsOf(api) : calls[k].res \in Failures }

\* C17: a transport error in a Slack step ends the run failed, and it is the
\* last call of the run; each of lookup, DM open, post and webhook is called
\* at most once; after a failed DM open there is no post; a run that opened a
\* DM channel never posts to the fallback channel.
C17_TransportErrorIsFinal ==
  /\ \A k \in TransportErrors :
       /\ k = Len(calls)
       /\ pc = "done"
       /\ \E msg \in {"Failed to open DM", "Failed to send DM", "Failed to send to channel",
                      "Slack webhook failed", "fetch failed", "users.lookupByEmail"} :
            failed = ActionFailed(msg)
  /\ \A api \in SlackApis : Cardinality(CallsOf(api)) <= 1
  /\ FailedCalls("conversations.open") # {} => CallsOf("chat.postMessage") = {}
  /\ CallsOf("conversations.open") # {} =>
       \A k \in CallsOf("chat.postMessage") :
         /\ calls[k].arg \in DmChannels
         /\ calls[k].arg # inputs.fallback_channel

C17_Witness ==
  /\ pc = "done"
  /\ inputs.fallback_channel # ""
  /\ \/ FailedCalls("conversations.open") # {}
     \/ /\ CallsOf("conversations.open") # {}
        /\ FailedCalls("chat.postMessage") # {}

\* The corpus indices within five lines of a matching line.
WithinFive(ls) ==
  { k \in 0..(Len(ls) - 1) : \E i \in MatchingIndices(ls) : i - 5 <= k /\ k <= i + 5 }

\* The corpus indices among the entries of the grouping loop.
KeptIndices(entries) == { entries[p] : p \in 1..Len(entries) } \ {SkipMark}

\* C18: once the corpus is scanned, the kept indices are exactly the corpus
\* indices within five lines of a matching line (the union of the clamped
\* windows); the grouping loop emits exactly the lines at those indices; and
\* for a single match at i with five lines on each side, the lines before
\* truncation are the corpus lines i-5..i+5 with no separator, returned whole
\* when the budget is at least 11.
C18_KeptIsUnionOfWindows ==
  epc # "scan" =>
    LET n == Len(lines)
        M == MatchingIndices(lines)
        entries == Entries
    IN /\ matchedLineIndices = WithinFive(lines)
       /\ epc \in {"grouped", "returned"} =>
            /\ KeptIndices(entries) = WithinFive(lines)
            /\ Len(extractedLines) = Len(entries)
            /\ \A p \in 1..Len(entries) :
                 entries[p] # SkipMark => extractedLines[p] = lines[entries[p] + 1]
            /\ \A i \in M :
                 (M = {i} /\ i >= 5 /\ i + 5 <= n - 1) =>
                   /\ extractedLines = SubSeq(lines, i - 4, i + 6)
                   /\ Len(extractedLines) = 11
                   /\ (epc = "returned" /\ maxLines >= 11) => result = Str(Join(SubSeq(lines, i - 4, i + 6)))

\* A single match at index 6 of a 13-line corpus, budget 500: lines 1..11.
C18_Witness ==
  /\ epc = "returned"
  /\ Len(lines) = 13
  /\ MatchingIndices(lines) = {6}
  /\ matchedLineIndices = 1..11
  /\ maxLines = DefaultMaxLogLines
  /\ result = Str(Join(SubSeq(lines, 2, 12)))

IsDownload(c) == c.api = "downloadJobLogsForWorkflowRun"
IsFetched(c) == c.res = "ok"
IsNotFetched(c) == c.res # "ok"

\* The log downloads of the run, in order.
Downloads == SelectSeq(calls, IsDownload)

\* The job names of a sequence of download calls.
JobsOf(cs) == [k \in 1..Len(cs) |-> cs[k].arg]

IsJobHeader(line) == Len(line) >= 2 /\ line[1] = "=== Job: "

\* The jobs whose sections the corpus holds, in order.
SectionJobs(corpus) ==
  LET headers == SelectSeq(ResultLines(Str(corpus)), IsJobHeader)
  IN [k \in 1..Len(headers) |-> headers[k][2]]

IsFetchWarning(w) == w[1] = "Failed to fetch logs for job "

\* The jobs warned about as not fetched, in order.
WarnedJobs ==
  LET ws == SelectSeq(warnings, IsFetchWarning)
  IN [k \in 1..Len(ws) |-> ws[k][2]]

NoLogsMessage == <<"Could not fetch any logs from failed jobs">>

\* C19: the downloads are made for the failed jobs in listing order, one per
\* job; the corpus holds exactly the sections of the fetched jobs, in listing
\* order, and each job not fetched has its warning; a run that fetched at
\* least one log is never failed for missing logs and, once over, has called
\* the AI; a run in which every download failed ends failed with 'Could not
\* fetch any logs from failed jobs' having called neither the AI nor Slack.
C19_FetchInOrderSkipFailures ==
  LET dl == Downloads
      fetched == SelectSeq(dl, IsFetched)
      loopDone == failedJobs # <<>> /\ jobIndex = Len(failedJobs)
  IN /\ Len(dl) = jobIndex
     /\ jobIndex <= Len(failedJobs)
     /\ JobsOf(dl) = SubSeq(failedJobs, 1, jobIndex)
     /\ SectionJobs(allLogs) = JobsOf(fetched)
     /\ WarnedJobs = JobsOf(SelectSeq(dl, IsNotFetched))
     /\ pc # "fetch" => (dl = <<>> \/ loopDone)
     /\ (loopDone /\ fetched # <<>>) =>
          /\ failed # NoLogsMessage
          /\ failed # ActionFailed("downloadJobLogsForWorkflowRun")
          /\ pc = "done" => CallsOf("ai") # {}
     /\ (loopDone /\ fetched = <<>> /\ pc # "fetch") =>
          /\ pc = "done"
          /\ failed = NoLogsMessage
          /\ CallsOf("ai") = {}
          /\ SlackCalls = <<>>
          /\ outputs = NoOutputs

\* Two failed jobs, the first download fails, the second succeeds, the run
\* goes on to the AI and ends without failure.
C19_Witness ==
  /\ pc = "done"
  /\ Len(failedJobs) = 2
  /\ Downloads[1].res = "throw"
  /\ Downloads[2].res = "ok"
  /\ SectionJobs(allLogs) = <<failedJobs[2]>>
  /\ WarnedJobs = <<failedJobs[1]>>
  /\ CallsOf("ai") # {}
  /\ failed = <<>>

====
